---------------------------- MODULE Spec2Model ----------------------------
(***************************************************************************)
(* Session lifecycle of the farm dashboard: the AuthProvider               *)
(* (src/src/contexts/AuthContext.tsx), the LoadingSpinner watchdog         *)
(* (src/src/components/LoadingSpinner.tsx) and the route table             *)
(* (src/unnamed/part_001).                                                 *)
(*                                                                         *)
(* One step of the model is one task of the browser's event loop: a timer  *)
(* callback, the continuation of an await, a UI call, or the passing of    *)
(* one time unit (one second).  React state written in a task is rendered  *)
(* at the end of that task, so the effects of the render (mounting and     *)
(* unmounting LoadingSpinner, re-running its effect) are part of the step. *)
(***************************************************************************)
EXTENDS Integers, FiniteSets, Sequences, TLC

\* ------------------------------------------------------------------ bounds
Farmers == {"f1", "f2"}      \* profile records of the external service
MaxHandlers == 1             \* auth-change handlers in flight at once
AttemptsCap == 5             \* the stored counter saturates here
MaxClock == 13               \* the two elapsed-time observers saturate here
DashTreatments == 2          \* rows of the pool a Dashboard fetch can answer

\* ------------------------------------------------------- program constants
MAX_SESSION_CHECK_ATTEMPTS == 3
LOOKUP_TIMEOUT == 10
RETRY_DELAY == 2
HINT_DELAY == 8
FORCE_DELAY == 12

None == "none"               \* null user / null session
Off == -1                    \* a timer that is not armed
StorageKeys == {"sb-auth-token", "theme"}
Events == {"INITIAL_SESSION", "SIGNED_IN", "TOKEN_REFRESHED", "SIGNED_OUT"}
SignOutOutcomes == {"ok", "error", "throw"}
HandlerFailures == {"handlerError", "handlerMissing", "handlerThrows"}

VARIABLES
  user,                  \* useState<Farmer | null>
  loading,               \* useState(true)
  sessionCheckAttempts,  \* useState(0), the live React state
  storage,               \* keys held by localStorage and sessionStorage
  navigated,             \* window.location.href = '/' has been assigned
  svc,                   \* the session the external auth service holds
  checkPc,               \* where checkUser stands
  checkSession,          \* the session user checkUser is fetching a profile for
  lookupTimer,           \* elapsed time of the 10 s timer (timeoutId), or Off
  retryTimer,            \* elapsed time of the 2 s retry timer, or Off
  checkElapsed,          \* observer: time since the running checkUser started
  checkTimedOut,         \* observer: the 10 s timer of the running check fired
  handlers,              \* auth-change handlers awaiting the profile query
  guardTimer,            \* elapsed time of LoadingSpinner's two timers, or Off
  hintPending,           \* the 8 s timer is armed and has not fired
  showTimeout,           \* LoadingSpinner's useState(false)
  sinceMount,            \* observer: time since LoadingSpinner mounted
  soPc,                  \* signOut: "idle" or "awaiting"
  siPc,                  \* signIn: "idle" or the farmer whose credentials were sent
  suPc,                  \* signUp: "idle", "auth" or "insert"
  signedOut,             \* observer: a signOut completed, no signIn call or answer since
  last,                  \* observer: what the last step did
  mounted,               \* AuthProvider is mounted: its effect's cleanup has not run
  \* Dashboard (src/unnamed/part_000)
  stats,                 \* useState({totalLands: 0, ...})
  lands,                 \* useState([])
  treatments,            \* useState([])
  diagnoses,             \* useState([])
  fetchPc,               \* where fetchDashboardData stands
  landsData,             \* its local: the answer of the lands query
  plantsData,            \* its local: the answer of the plants query
  treatmentsData,        \* its local: the answer of the treatments query
  cropHealthData,        \* calculateCropHealth() of the last render
  pesticideUsageData,    \* generatePesticideUsage() of the last render
  cropHealthTrendData,   \* generateCropHealthTrend() of the last render
  dashLast               \* observer: what the last Dashboard step did

sessionVars ==
  <<user, loading, sessionCheckAttempts, storage, navigated, svc,
    checkPc, checkSession, lookupTimer, retryTimer, checkElapsed,
    checkTimedOut, handlers, guardTimer, hintPending,
    showTimeout, sinceMount, soPc, siPc, suPc, signedOut, last, mounted>>

dashVars ==
  <<stats, lands, treatments, diagnoses, fetchPc, landsData, plantsData,
    treatmentsData, cropHealthData, pesticideUsageData, cropHealthTrendData,
    dashLast>>

vars == <<sessionVars, dashVars>>

checkVars == <<checkPc, checkSession, lookupTimer, retryTimer, checkElapsed,
               checkTimedOut>>
apiVars == <<soPc, siPc, suPc, signedOut>>

Min(a, b) == IF a < b THEN a ELSE b
Max(a, b) == IF a > b THEN a ELSE b

RECURSIVE Total(_, _)
Total(h, S) ==
  IF S = {} THEN 0
  ELSE LET f == CHOOSE x \in S : TRUE IN h[f] + Total(h, S \ {f})
InFlight == Total(handlers, Farmers)

\* What a step did: the operation, whether it called clearSession, whether
\* the step before it had called clearSession too, whether it assigned
\* window.location.href, and how an async API call settled.
Did(op, clear, nav, result) ==
  [op |-> op, clear |-> clear, again |-> clear /\ last.clear, nav |-> nav,
   result |-> result]

\* ---------------------------------------------------------- AuthProvider

\* The value of sessionCheckAttempts that checkUser reads.  checkUser is
\* created once, by the effect with the empty dependency list, so it closes
\* over the state of the first render.
capturedAttempts == 0

\* clearSession without the two storage clears' full effect: the auth token
\* is removed, every other key is kept.
clearSession_KeepsOtherKeys ==
  /\ user' = None
  /\ loading' = FALSE
  /\ storage' = storage \ {"sb-auth-token"}

clearSession ==
  /\ user' = None
  /\ loading' = FALSE
  /\ storage' = {}

handleSessionError ==
  /\ clearSession
  /\ navigated' = TRUE

\* The render without the effect's cleanup on unmount: the two timers of an
\* unmounted LoadingSpinner stay armed.
Render_KeepsTimers(stateChanged) ==
  IF ~loading \/ ~loading'
    THEN UNCHANGED <<guardTimer, hintPending, showTimeout, sinceMount>>
    ELSE IF stateChanged \/ user' # user
      THEN /\ guardTimer' = 0
           /\ hintPending' = TRUE
           /\ UNCHANGED <<showTimeout, sinceMount>>
      ELSE UNCHANGED <<guardTimer, hintPending, showTimeout, sinceMount>>

\* The render that follows a step, as far as LoadingSpinner is concerned.
\* AppRoutes mounts LoadingSpinner exactly while loading is true.  Its effect
\* depends on clearSession, which AuthProvider creates anew on every render:
\* whenever AuthProvider re-renders with loading still true the effect's
\* cleanup cancels both timers and the effect arms them again.
Render(stateChanged) ==
  IF ~loading \/ ~loading'
    THEN /\ guardTimer' = Off
         /\ hintPending' = FALSE
         /\ showTimeout' = FALSE
         /\ sinceMount' = 0
    ELSE IF stateChanged \/ user' # user
      THEN /\ guardTimer' = 0
           /\ hintPending' = TRUE
           /\ UNCHANGED <<showTimeout, sinceMount>>
      ELSE UNCHANGED <<guardTimer, hintPending, showTimeout, sinceMount>>

\* checkUser(): arm the 10 s timer and call getSession.
StartCheck ==
  /\ checkPc' = "getSession"
  /\ checkSession' = None
  /\ lookupTimer' = 0
  /\ retryTimer' = Off
  /\ checkElapsed' = 0
  /\ checkTimedOut' = FALSE

\* The catch branch of checkUser.
CheckCatch(op) ==
  /\ lookupTimer' = Off
  /\ sessionCheckAttempts' = Min(sessionCheckAttempts + 1, AttemptsCap)
  /\ checkSession' = None
  /\ checkElapsed' = 0
  /\ UNCHANGED checkTimedOut
  /\ IF capturedAttempts >= MAX_SESSION_CHECK_ATTEMPTS
       THEN /\ handleSessionError
            /\ checkPc' = "done"
            /\ retryTimer' = Off
            /\ last' = Did(op, TRUE, TRUE, "-")
       ELSE /\ checkPc' = "retryWait"
            /\ retryTimer' = 0
            /\ UNCHANGED <<user, loading, storage, navigated>>
            /\ last' = Did(op, FALSE, FALSE, "-")
  /\ Render(TRUE)
  /\ UNCHANGED <<svc, handlers, apiVars>>
  /\ UNCHANGED <<mounted, dashVars>>

\* getSession() answers with the session the service holds.
GetSessionReturns ==
  /\ checkPc = "getSession"
  /\ lookupTimer' = Off
  /\ IF svc # None
       THEN /\ checkPc' = "fetchFarmer"
            /\ checkSession' = svc
            /\ UNCHANGED <<user, loading, checkElapsed>>
       ELSE /\ checkPc' = "done"
            /\ checkSession' = None
            /\ user' = None
            /\ loading' = FALSE
            /\ checkElapsed' = 0
  /\ Render(FALSE)
  /\ last' = Did("getSession", FALSE, FALSE, "-")
  /\ UNCHANGED <<sessionCheckAttempts, storage, navigated, svc, retryTimer,
                 checkTimedOut, handlers, apiVars>>
  /\ UNCHANGED <<mounted, dashVars>>

\* getSession() rejects.
GetSessionThrows ==
  /\ checkPc = "getSession"
  /\ CheckCatch("getSessionThrows")

\* The success path without setSessionCheckAttempts(0).
FarmerFound_KeepsAttempts ==
  /\ checkPc = "fetchFarmer"
  /\ user' = checkSession
  /\ loading' = FALSE
  /\ checkPc' = "done"
  /\ checkSession' = None
  /\ checkElapsed' = 0
  /\ Render(FALSE)
  /\ last' = Did("farmerFound", FALSE, FALSE, "-")
  /\ UNCHANGED <<sessionCheckAttempts, storage, navigated, svc, lookupTimer,
                 retryTimer, checkTimedOut, handlers, apiVars>>
  /\ UNCHANGED <<mounted, dashVars>>

\* The profile query of checkUser answers with the farmer's record.
FarmerFound ==
  /\ checkPc = "fetchFarmer"
  /\ user' = checkSession
  /\ sessionCheckAttempts' = 0
  /\ loading' = FALSE
  /\ checkPc' = "done"
  /\ checkSession' = None
  /\ checkElapsed' = 0
  /\ Render(FALSE)
  /\ last' = Did("farmerFound", FALSE, FALSE, "-")
  /\ UNCHANGED <<storage, navigated, svc, lookupTimer, retryTimer,
                 checkTimedOut, handlers, apiVars>>
  /\ UNCHANGED <<mounted, dashVars>>

\* The profile query answers without a record: 'Farmer data not found' is
\* thrown inside the try.
FarmerMissing ==
  /\ checkPc = "fetchFarmer"
  /\ CheckCatch("farmerMissing")

\* The profile query rejects.
FarmerThrows ==
  /\ checkPc = "fetchFarmer"
  /\ CheckCatch("farmerThrows")

\* A 10 s timer whose callback also abandons the check it guards.
LookupTimeout_CancelsCheck ==
  /\ lookupTimer = LOOKUP_TIMEOUT
  /\ handleSessionError
  /\ lookupTimer' = Off
  /\ checkTimedOut' = TRUE
  /\ checkPc' = "done"
  /\ checkSession' = None
  /\ Render(FALSE)
  /\ last' = Did("lookupTimeout", TRUE, TRUE, "-")
  /\ UNCHANGED <<sessionCheckAttempts, svc, retryTimer, checkElapsed,
                 handlers, apiVars>>
  /\ UNCHANGED <<mounted, dashVars>>

\* The 10 s timer fires.
LookupTimeout ==
  /\ lookupTimer = LOOKUP_TIMEOUT
  /\ handleSessionError
  /\ lookupTimer' = Off
  /\ checkTimedOut' = TRUE
  /\ Render(FALSE)
  /\ last' = Did("lookupTimeout", TRUE, TRUE, "-")
  /\ UNCHANGED <<sessionCheckAttempts, svc, checkPc, checkSession, retryTimer,
                 checkElapsed, handlers, apiVars>>
  /\ UNCHANGED <<mounted, dashVars>>

\* The 2 s retry timer fires.
RetryFire ==
  /\ checkPc = "retryWait"
  /\ retryTimer = RETRY_DELAY
  /\ IF capturedAttempts < MAX_SESSION_CHECK_ATTEMPTS
       THEN StartCheck
       ELSE /\ checkPc' = "done"
            /\ retryTimer' = Off
            /\ UNCHANGED <<checkSession, lookupTimer, checkElapsed,
                           checkTimedOut>>
  /\ last' = Did("retry", FALSE, FALSE, "-")
  /\ UNCHANGED <<user, loading, sessionCheckAttempts, storage, navigated, svc,
                 handlers, guardTimer, hintPending, showTimeout, sinceMount,
                 apiVars>>
  /\ UNCHANGED <<mounted, dashVars>>

\* ------------------------------------------- onAuthStateChange handler

\* A handler whose signed-out branch calls clearSession.
AuthChange_ClearsSession(event) ==
  LET session == IF event = "SIGNED_OUT" THEN None ELSE svc IN
  /\ event = "SIGNED_OUT" => svc = None
  /\ event \in {"SIGNED_IN", "TOKEN_REFRESHED"} => svc # None
  /\ IF event = "SIGNED_OUT" \/ session = None
       THEN /\ clearSession
            /\ last' = Did("authChange", TRUE, FALSE, "-")
            /\ UNCHANGED handlers
       ELSE /\ InFlight < MaxHandlers
            /\ handlers' = [handlers EXCEPT ![session] = @ + 1]
            /\ last' = Did("authChange", FALSE, FALSE, "-")
            /\ UNCHANGED <<user, loading, storage>>
  /\ Render(FALSE)
  /\ UNCHANGED <<sessionCheckAttempts, navigated, svc, checkVars, apiVars>>
  /\ UNCHANGED <<mounted, dashVars>>

\* The external service delivers an auth-change notification.  SIGNED_OUT
\* carries no session; the other events carry the session the service holds,
\* which may be null (INITIAL_SESSION of a visitor who is not signed in).
\* With a session the handler suspends at the profile query.  (A session
\* without a user takes the else branch, whose writes equal the first
\* branch's.)
AuthChange(event) ==
  LET session == IF event = "SIGNED_OUT" THEN None ELSE svc IN
  /\ event = "SIGNED_OUT" => svc = None
  /\ event \in {"SIGNED_IN", "TOKEN_REFRESHED"} => svc # None
  /\ IF event = "SIGNED_OUT" \/ session = None
       THEN /\ user' = None
            /\ loading' = FALSE
            /\ UNCHANGED handlers
       ELSE /\ InFlight < MaxHandlers
            /\ handlers' = [handlers EXCEPT ![session] = @ + 1]
            /\ UNCHANGED <<user, loading>>
  /\ Render(FALSE)
  /\ last' = Did("authChange", FALSE, FALSE, "-")
  /\ UNCHANGED <<sessionCheckAttempts, storage, navigated, svc, checkVars,
                 apiVars>>
  /\ UNCHANGED <<mounted, dashVars>>

\* The handler's success path without setLoading(false).
HandlerFound_KeepsLoading(f) ==
  /\ handlers[f] > 0
  /\ handlers' = [handlers EXCEPT ![f] = @ - 1]
  /\ user' = f
  /\ sessionCheckAttempts' = 0
  /\ UNCHANGED loading
  /\ Render(FALSE)
  /\ last' = Did("handlerFound", FALSE, FALSE, "-")
  /\ UNCHANGED <<storage, navigated, svc, checkVars, apiVars>>
  /\ UNCHANGED <<mounted, dashVars>>

\* The handler's profile query answers with the farmer's record.
HandlerFound(f) ==
  /\ handlers[f] > 0
  /\ handlers' = [handlers EXCEPT ![f] = @ - 1]
  /\ user' = f
  /\ sessionCheckAttempts' = 0
  /\ loading' = FALSE
  /\ Render(FALSE)
  /\ last' = Did("handlerFound", FALSE, FALSE, "-")
  /\ UNCHANGED <<storage, navigated, svc, checkVars, apiVars>>
  /\ UNCHANGED <<mounted, dashVars>>

\* The handler's failure path with clearSession alone, without the
\* navigation of handleSessionError.
HandlerFails_NoNavigation(f, why) ==
  /\ handlers[f] > 0
  /\ handlers' = [handlers EXCEPT ![f] = @ - 1]
  /\ clearSession
  /\ UNCHANGED navigated
  /\ Render(FALSE)
  /\ last' = Did(why, TRUE, FALSE, "-")
  /\ UNCHANGED <<sessionCheckAttempts, svc, checkVars, apiVars>>
  /\ UNCHANGED <<mounted, dashVars>>

\* The handler's profile query answers with an error ("handlerError") or
\* without a record ("handlerMissing"), or it rejects and the handler's
\* catch runs ("handlerThrows").
HandlerFails(f, why) ==
  /\ handlers[f] > 0
  /\ handlers' = [handlers EXCEPT ![f] = @ - 1]
  /\ handleSessionError
  /\ Render(FALSE)
  /\ last' = Did(why, TRUE, TRUE, "-")
  /\ UNCHANGED <<sessionCheckAttempts, svc, checkVars, apiVars>>
  /\ UNCHANGED <<mounted, dashVars>>

\* ------------------------------------------------- signIn and signOut

\* A signIn that shows the spinner while its request is in flight.
SignInCall_SetsLoading(f) ==
  /\ ~loading
  /\ user = None
  /\ siPc = "idle"
  /\ suPc = "idle"
  /\ siPc' = f
  /\ signedOut' = FALSE
  /\ loading' = TRUE
  /\ last' = Did("signInCall", FALSE, FALSE, "-")
  /\ UNCHANGED <<user, sessionCheckAttempts, storage, navigated, svc,
                 checkVars, handlers, guardTimer, hintPending, showTimeout,
                 sinceMount, soPc, suPc>>
  /\ UNCHANGED <<mounted, dashVars>>

\* AuthPage, the caller of signIn and signUp, is what AppRoutes renders at
\* /auth once loading is false and while user is null.  It has one call in
\* flight at a time.
SignInCall(f) ==
  /\ ~loading
  /\ user = None
  /\ siPc = "idle"
  /\ suPc = "idle"
  /\ siPc' = f
  /\ signedOut' = FALSE
  /\ last' = Did("signInCall", FALSE, FALSE, "-")
  /\ UNCHANGED <<user, loading, sessionCheckAttempts, storage, navigated, svc,
                 checkVars, handlers, guardTimer, hintPending, showTimeout,
                 sinceMount, soPc, suPc>>
  /\ UNCHANGED <<mounted, dashVars>>

\* signIn that sets the user itself from the answer.
SignInSettles_SetsUser(ok) ==
  /\ siPc # "idle"
  /\ siPc' = "idle"
  /\ svc' = IF ok THEN siPc ELSE svc
  /\ storage' = IF ok THEN storage \cup {"sb-auth-token"} ELSE storage
  /\ signedOut' = FALSE
  /\ user' = IF ok THEN siPc ELSE user
  /\ last' = Did("signIn", FALSE, FALSE, IF ok THEN "resolved" ELSE "rejected")
  /\ UNCHANGED <<loading, sessionCheckAttempts, navigated, checkVars,
                 handlers, guardTimer, hintPending, showTimeout, sinceMount,
                 soPc, suPc>>
  /\ UNCHANGED <<mounted, dashVars>>

\* signInWithPassword answers.  On success the service holds the session and
\* its client persists the token; signIn itself writes no React state.
SignInSettles(ok) ==
  /\ siPc # "idle"
  /\ siPc' = "idle"
  /\ svc' = IF ok THEN siPc ELSE svc
  /\ storage' = IF ok THEN storage \cup {"sb-auth-token"} ELSE storage
  /\ signedOut' = FALSE
  /\ last' = Did("signIn", FALSE, FALSE, IF ok THEN "resolved" ELSE "rejected")
  /\ UNCHANGED <<user, loading, sessionCheckAttempts, navigated, checkVars,
                 handlers, guardTimer, hintPending, showTimeout, sinceMount,
                 soPc, suPc>>
  /\ UNCHANGED <<mounted, dashVars>>

SignUpCall ==
  /\ ~loading
  /\ user = None
  /\ siPc = "idle"
  /\ suPc = "idle"
  /\ suPc' = "auth"
  /\ last' = Did("signUpCall", FALSE, FALSE, "-")
  /\ UNCHANGED <<user, loading, sessionCheckAttempts, storage, navigated, svc,
                 checkVars, handlers, guardTimer, hintPending, showTimeout,
                 sinceMount, soPc, siPc, signedOut>>
  /\ UNCHANGED <<mounted, dashVars>>

\* supabase.auth.signUp answers.  An error is thrown to the caller.  On
\* success the service either holds no session for the new account yet
\* (session = svc) or has established one (session is the new farmer);
\* signUp goes on to insert the farmers row.
SignUpAuthSettles(ok, session) ==
  /\ suPc = "auth"
  /\ session \in Farmers \cup {svc}
  /\ ~ok => session = svc
  /\ suPc' = IF ok THEN "insert" ELSE "idle"
  /\ svc' = session
  /\ storage' = IF session # svc THEN storage \cup {"sb-auth-token"} ELSE storage
  /\ signedOut' = IF session # svc THEN FALSE ELSE signedOut
  /\ last' = Did("signUpAuth", FALSE, FALSE, IF ok THEN "-" ELSE "rejected")
  /\ UNCHANGED <<user, loading, sessionCheckAttempts, navigated, checkVars,
                 handlers, guardTimer, hintPending, showTimeout, sinceMount,
                 soPc, siPc>>
  /\ UNCHANGED <<mounted, dashVars>>

\* The insert into farmers answers: insertError is thrown to the caller,
\* otherwise signUp resolves.
SignUpInsertSettles(ok) ==
  /\ suPc = "insert"
  /\ suPc' = "idle"
  /\ last' = Did("signUpInsert", FALSE, FALSE, IF ok THEN "resolved" ELSE "rejected")
  /\ UNCHANGED <<user, loading, sessionCheckAttempts, storage, navigated, svc,
                 checkVars, handlers, guardTimer, hintPending, showTimeout,
                 sinceMount, soPc, siPc, signedOut>>
  /\ UNCHANGED <<mounted, dashVars>>

\* While loading, AppRoutes renders LoadingSpinner alone, which offers no
\* sign-out.
SignOutCall ==
  /\ ~loading
  /\ soPc = "idle"
  /\ soPc' = "awaiting"
  /\ last' = Did("signOutCall", FALSE, FALSE, "-")
  /\ UNCHANGED <<user, loading, sessionCheckAttempts, storage, navigated, svc,
                 checkVars, handlers, guardTimer, hintPending, showTimeout,
                 sinceMount, siPc, suPc, signedOut>>
  /\ UNCHANGED <<mounted, dashVars>>

\* signOut without its catch and finally: a failure leaves the Session as it
\* was and reaches the caller.
SignOutSettles_NoFinally(outcome) ==
  /\ soPc = "awaiting"
  /\ soPc' = "idle"
  /\ svc' = IF outcome = "ok" THEN None ELSE svc
  /\ signedOut' = TRUE
  /\ IF outcome = "ok"
       THEN /\ clearSession
            /\ last' = Did("signOut", TRUE, FALSE, "resolved")
       ELSE /\ UNCHANGED <<user, loading, storage>>
            /\ last' = Did("signOut", FALSE, FALSE, "rejected")
  /\ Render(FALSE)
  /\ UNCHANGED <<sessionCheckAttempts, navigated, checkVars, handlers, siPc,
                 suPc>>
  /\ UNCHANGED <<mounted, dashVars>>

\* supabase.auth.signOut() settles: "ok", "error" (an error value, thrown
\* inside the try) or "throw" (a rejection).  Both failures are caught and
\* logged; the finally block runs clearSession in all three cases.
SignOutSettles(outcome) ==
  /\ soPc = "awaiting"
  /\ soPc' = "idle"
  /\ svc' = IF outcome = "ok" THEN None ELSE svc
  /\ clearSession
  /\ signedOut' = TRUE
  /\ Render(FALSE)
  /\ last' = Did("signOut", TRUE, FALSE, "resolved")
  /\ UNCHANGED <<sessionCheckAttempts, navigated, checkVars, handlers, siPc,
                 suPc>>
  /\ UNCHANGED <<mounted, dashVars>>

\* ------------------------------------------------------- LoadingSpinner

\* The 8 s timer fires: setShowTimeout(true) re-renders LoadingSpinner only.
GuardHint ==
  /\ hintPending
  /\ guardTimer = HINT_DELAY
  /\ hintPending' = FALSE
  /\ showTimeout' = TRUE
  /\ last' = Did("hint", FALSE, FALSE, "-")
  /\ UNCHANGED <<user, loading, sessionCheckAttempts, storage, navigated, svc,
                 checkVars, handlers, guardTimer, sinceMount, apiVars>>
  /\ UNCHANGED <<mounted, dashVars>>

\* A 12 s timer whose callback navigates without clearSession.
GuardForce_NavigatesOnly ==
  /\ guardTimer = FORCE_DELAY
  /\ navigated' = TRUE
  /\ guardTimer' = Off
  /\ last' = Did("guardForce", FALSE, TRUE, "-")
  /\ UNCHANGED <<user, loading, storage, hintPending, showTimeout, sinceMount,
                 sessionCheckAttempts, svc, checkVars, handlers, apiVars>>
  /\ UNCHANGED <<mounted, dashVars>>

\* The 12 s timer fires.
GuardForce ==
  /\ guardTimer = FORCE_DELAY
  /\ clearSession
  /\ navigated' = TRUE
  /\ Render(FALSE)
  /\ last' = Did("guardForce", TRUE, TRUE, "-")
  /\ UNCHANGED <<sessionCheckAttempts, svc, checkVars, handlers, apiVars>>
  /\ UNCHANGED <<mounted, dashVars>>

\* 'Go to home page now'.
EscapeClick ==
  /\ loading
  /\ showTimeout
  /\ clearSession
  /\ navigated' = TRUE
  /\ Render(FALSE)
  /\ last' = Did("escape", TRUE, TRUE, "-")
  /\ UNCHANGED <<sessionCheckAttempts, svc, checkVars, handlers, apiVars>>
  /\ UNCHANGED <<mounted, dashVars>>

\* ------------------------------------------------------------ AppRoutes

PublicPaths == {"/", "/auth"}
ProtectedPaths == {"/dashboard", "/crop-diagnosis", "/crops", "/schedules",
                   "/pesticides", "/profile"}
Paths == PublicPaths \cup ProtectedPaths \cup {"/unknown"}

\* ProtectedRoute: children for a non-empty user, a redirect otherwise.
ProtectedRoute(u, children) ==
  IF u # None THEN children ELSE "Navigate"

\* The route table without the ProtectedRoute wrapper around the protected
\* pages.
AppRoutes_Unwrapped(path) ==
  IF loading THEN "LoadingSpinner"
  ELSE IF path \in PublicPaths
    THEN (IF user = None THEN path ELSE "Navigate")
  ELSE IF path \in ProtectedPaths
    THEN path
  ELSE "Navigate"

\* What AppRoutes renders at a path: the page (named by its path), the
\* spinner, or a <Navigate> redirect.
AppRoutes(path) ==
  IF loading THEN "LoadingSpinner"
  ELSE IF path \in PublicPaths
    THEN (IF user = None THEN path ELSE "Navigate")
  ELSE IF path \in ProtectedPaths
    THEN ProtectedRoute(user, path)
  ELSE "Navigate"

\* ----------------------------------------------------------------- time

Adv(t) == IF t = Off THEN Off ELSE t + 1

\* One time unit passes.  A timer that is due fires before time moves on.
Tick ==
  /\ lookupTimer # LOOKUP_TIMEOUT
  /\ retryTimer # RETRY_DELAY
  /\ ~(hintPending /\ guardTimer = HINT_DELAY)
  /\ guardTimer # FORCE_DELAY
  /\ lookupTimer' = Adv(lookupTimer)
  /\ retryTimer' = Adv(retryTimer)
  /\ guardTimer' = Adv(guardTimer)
  /\ sinceMount' = IF loading THEN Min(sinceMount + 1, MaxClock) ELSE 0
  /\ checkElapsed' = IF checkPc \in {"getSession", "fetchFarmer"}
                       THEN Min(checkElapsed + 1, MaxClock) ELSE 0
  /\ last' = Did("tick", FALSE, FALSE, "-")
  /\ UNCHANGED <<user, loading, sessionCheckAttempts, storage, navigated, svc,
                 checkPc, checkSession, checkTimedOut, handlers,
                 hintPending, showTimeout, apiVars>>
  /\ UNCHANGED <<mounted, dashVars>>

\* --------------------------------------------------------------- unmount

\* AuthProvider unmounts: the effect's cleanup (lines 151-156) unsubscribes
\* from auth changes and clears timeoutId, the 10 s timer; the id of the 2 s
\* retry timer was never kept, so that timer stays armed.  LoadingSpinner
\* unmounts with it and its cleanup clears its two timers.  Requests in
\* flight stay in flight.
Unmount ==
  /\ mounted
  /\ mounted' = FALSE
  /\ lookupTimer' = Off
  /\ guardTimer' = Off
  /\ hintPending' = FALSE
  /\ showTimeout' = FALSE
  /\ sinceMount' = 0
  /\ last' = Did("unmount", FALSE, FALSE, "-")
  /\ UNCHANGED <<user, loading, sessionCheckAttempts, storage, navigated, svc,
                 checkPc, checkSession, retryTimer, checkElapsed,
                 checkTimedOut, handlers, apiVars>>
  /\ UNCHANGED dashVars

\* After the unmount the setters of the unmounted component do nothing: of
\* clearSession the two storage clears remain, of handleSessionError those and
\* the navigation.
UnmountedFrame ==
  /\ ~mounted
  /\ UNCHANGED <<user, loading, sessionCheckAttempts, svc, guardTimer,
                 hintPending, showTimeout, sinceMount, apiVars, mounted>>
  /\ UNCHANGED dashVars

handleSessionErrorUnmounted ==
  /\ storage' = {}
  /\ navigated' = TRUE

\* The catch branch of checkUser.
CheckCatchUnmounted(op) ==
  /\ lookupTimer' = Off
  /\ checkSession' = None
  /\ checkElapsed' = 0
  /\ UNCHANGED <<checkTimedOut, handlers>>
  /\ IF capturedAttempts >= MAX_SESSION_CHECK_ATTEMPTS
       THEN /\ handleSessionErrorUnmounted
            /\ checkPc' = "done"
            /\ retryTimer' = Off
            /\ last' = Did(op, TRUE, TRUE, "-")
       ELSE /\ checkPc' = "retryWait"
            /\ retryTimer' = 0
            /\ UNCHANGED <<storage, navigated>>
            /\ last' = Did(op, FALSE, FALSE, "-")
  /\ UnmountedFrame

\* getSession() settles for a checkUser that runs on after the unmount.
GetSessionSettlesUnmounted(outcome) ==
  /\ checkPc = "getSession"
  /\ IF outcome = "throws" THEN CheckCatchUnmounted("getSessionThrows")
     ELSE /\ lookupTimer' = Off
          /\ IF svc # None
               THEN /\ checkPc' = "fetchFarmer"
                    /\ checkSession' = svc
                    /\ UNCHANGED checkElapsed
               ELSE /\ checkPc' = "done"
                    /\ checkSession' = None
                    /\ checkElapsed' = 0
          /\ last' = Did("getSession", FALSE, FALSE, "-")
          /\ UNCHANGED <<storage, navigated, retryTimer, checkTimedOut, handlers>>
          /\ UnmountedFrame

\* Its profile query settles: "found", "missing" or "throws".
FarmerSettlesUnmounted(outcome) ==
  /\ checkPc = "fetchFarmer"
  /\ IF outcome = "found"
       THEN /\ checkPc' = "done"
            /\ checkSession' = None
            /\ checkElapsed' = 0
            /\ last' = Did("farmerFound", FALSE, FALSE, "-")
            /\ UNCHANGED <<storage, navigated, lookupTimer, retryTimer,
                           checkTimedOut, handlers>>
            /\ UnmountedFrame
       ELSE CheckCatchUnmounted(IF outcome = "missing" THEN "farmerMissing"
                                ELSE "farmerThrows")

\* A 10 s timer armed after the unmount fires.
LookupTimeoutUnmounted ==
  /\ lookupTimer = LOOKUP_TIMEOUT
  /\ handleSessionErrorUnmounted
  /\ lookupTimer' = Off
  /\ checkTimedOut' = TRUE
  /\ last' = Did("lookupTimeout", TRUE, TRUE, "-")
  /\ UNCHANGED <<checkPc, checkSession, retryTimer, checkElapsed, handlers>>
  /\ UnmountedFrame

\* The profile query of an auth-change handler that was in flight at the
\* unmount settles.
HandlerSettlesUnmounted(f, found) ==
  /\ handlers[f] > 0
  /\ handlers' = [handlers EXCEPT ![f] = @ - 1]
  /\ IF found
       THEN /\ UNCHANGED <<storage, navigated>>
            /\ last' = Did("handlerFound", FALSE, FALSE, "-")
       ELSE /\ handleSessionErrorUnmounted
            /\ last' = Did("handlerMissing", TRUE, TRUE, "-")
  /\ UNCHANGED checkVars
  /\ UnmountedFrame

\* ------------------------------------------------------------- Dashboard
\* src/unnamed/part_000.  A query of the service answers { data, error }: data
\* is an array of rows, or null when the query failed.

TOP_GROUPS == 6
NullPct == -1                \* a plant whose disease_percentage is null

Space == " "
Digits == <<"0", "1", "2", "3", "4", "5", "6", "7", "8", "9">>

\* pesticide names, as sequences of characters
CopperOxychloride == <<"C", "o", "p", "p", "e", "r", " ", "O", "x", "y">>
NeemOil == <<"N", "e", "e", "m", " ", "O", "i", "l">>
CopperSulfate == <<"C", "o", "p", "p", "e", "r", " ", "S", "u", "l">>
Mancozeb == <<"M", "a", "n", "c", "o", "z", "e", "b">>
TwoFourD == <<"2", "4", " ", "D">>
Sulfur == <<"S", "u", "l", "f", "u", "r", " ", "8", "0">>
Boron == <<"B", "o", "r", "o", "n">>
Zineb == <<"Z", "i", "n", "e", "b", " ", "7", "5">>

\* The rows of treatment_schedules, in ascending scheduled_date.
Pool == <<CopperOxychloride, NeemOil, CopperSulfate, Mancozeb, TwoFourD,
          Sulfur, Boron, Zineb>>

\* Their scheduled_date: the calendar day, counted so that the 30 days of
\* the health trend are the days 0..29 and today is day 29, and the time
\* within the day.
Schedule == <<[day |-> -3, slot |-> 0], [day |-> -1, slot |-> 1],
              [day |-> 0, slot |-> 1], [day |-> 5, slot |-> 0],
              [day |-> 14, slot |-> 1], [day |-> 27, slot |-> 1],
              [day |-> 29, slot |-> 0], [day |-> 31, slot |-> 0]>>

\* Every answer of the treatments query over the first n rows of the pool:
\* each row is absent, pending or completed, and the order is kept.
RECURSIVE TreatmentLists(_)
TreatmentLists(n) ==
  IF n = 0 THEN {<<>>}
  ELSE LET shorter == TreatmentLists(n - 1)
       IN  shorter \cup
           {Append(t, [id |-> n, pesticide_name |-> Pool[n],
                       scheduled_date |-> Schedule[n], completed |-> c]) :
              t \in shorter, c \in BOOLEAN}

LandLists == {<<[id |-> 1, acres |-> 2], [id |-> 2, acres |-> 3]>>}
PlantLists == {<<>>, <<40, 40>>, <<40, 45>>, <<45, 46, 46>>, <<NullPct, 40>>}
DiagnoseLists == {<<[id |-> 1]>>}

NullData == [isNull |-> TRUE, rows |-> <<>>]
Rows(r) == [isNull |-> FALSE, rows |-> r]
Answers(lists) == {Rows(r) : r \in lists} \cup {NullData}

\* data || []
OrEmpty(d) == IF d.isNull THEN <<>> ELSE d.rows
\* plant.disease_percentage || 0
OrZero(v) == IF v = NullPct THEN 0 ELSE v

\* Math.round(num / den) for num >= 0 and den > 0
Round(num, den) == (2 * num + den) \div (2 * den)

RECURSIVE Sum(_)
Sum(xs) == IF xs = <<>> THEN 0 ELSE Head(xs) + Sum(Tail(xs))

Map(xs, F(_)) == [i \in 1..Len(xs) |-> F(xs[i])]
Count(xs, P(_)) == Len(SelectSeq(xs, P))
IsCompleted(t) == t.completed
IsActive(t) == ~t.completed

Acres(land) == land.acres

\* lines 70-74 and 81
AverageDisease_Truncates(pd) ==
  LET ps == OrEmpty(pd)
  IN  IF Len(ps) = 0 THEN 0 ELSE Sum(Map(ps, OrZero)) \div Len(ps)

AverageDisease(pd) ==
  LET ps == OrEmpty(pd)
  IN  IF Len(ps) = 0 THEN 0 ELSE Round(Sum(Map(ps, OrZero)), Len(ps))

\* lines 65-82: the record handed to setStats
ComputeStats_ActiveCountsAll(ld, pd, td) ==
  [totalLands |-> Len(OrEmpty(ld)),
   totalAcres |-> Sum(Map(OrEmpty(ld), Acres)),
   activeTreatments |-> Len(OrEmpty(td)),
   completedTreatments |-> Count(OrEmpty(td), IsCompleted),
   averageDiseasePercentage |-> AverageDisease(pd)]

ComputeStats(ld, pd, td) ==
  [totalLands |-> Len(OrEmpty(ld)),
   totalAcres |-> Sum(Map(OrEmpty(ld), Acres)),
   activeTreatments |-> Count(OrEmpty(td), IsActive),
   completedTreatments |-> Count(OrEmpty(td), IsCompleted),
   averageDiseasePercentage |-> AverageDisease(pd)]

Slice(name, value) == [name |-> name, value |-> value]

calculateCropHealth_KeepsZeroSlices(ts) ==
  IF Len(ts) = 0 THEN <<Slice("No Data", 100)>>
  ELSE LET healthyPercentage == Round(Count(ts, IsCompleted) * 100, Len(ts))
       IN  <<Slice("Treated", healthyPercentage),
             Slice("Needs Treatment", 100 - healthyPercentage)>>

calculateCropHealth(ts) ==
  IF Len(ts) = 0 THEN <<Slice("No Data", 100)>>
  ELSE LET completedTreatments == Count(ts, IsCompleted)
           totalTreatments == Len(ts)
           healthyPercentage == Round(completedTreatments * 100, totalTreatments)
           needsTreatmentPercentage == 100 - healthyPercentage
       IN  IF totalTreatments = 0 THEN <<Slice("Needs Treatment", 100)>>
           ELSE (IF healthyPercentage > 0
                   THEN <<Slice("Treated", healthyPercentage)>> ELSE <<>>)
                \o (IF needsTreatmentPercentage > 0
                      THEN <<Slice("Needs Treatment", needsTreatmentPercentage)>>
                      ELSE <<>>)

\* name.split(' ')[0]
FirstWord(name) ==
  LET spaces == {i \in 1..Len(name) : name[i] = Space}
  IN  IF spaces = {} THEN name
      ELSE SubSeq(name, 1, (CHOOSE i \in spaces : \A j \in spaces : i <= j) - 1)

\* The keys of an object that are array indices ("0", "7", "24", not "07")
\* are enumerated first, in ascending numeric order.
IsArrayIndex(key) ==
  /\ Len(key) > 0
  /\ \A i \in 1..Len(key) : \E d \in 1..10 : Digits[d] = key[i]
  /\ (Len(key) = 1 \/ key[1] # "0")

RECURSIVE ToNumber(_)
ToNumber(key) ==
  IF key = <<>> THEN 0
  ELSE 10 * ToNumber(SubSeq(key, 1, Len(key) - 1))
       + (CHOOSE d \in 1..10 : Digits[d] = key[Len(key)]) - 1

\* lines 151-161: the reduce.  acc holds the groups in the order of creation.
RECURSIVE PesticideStats(_, _)
PesticideStats(ts, acc) ==
  IF ts = <<>> THEN acc
  ELSE LET treatment == Head(ts)
           name == FirstWord(treatment.pesticide_name)
           acc1 == IF \E i \in 1..Len(acc) : acc[i].key = name THEN acc
                   ELSE Append(acc, [key |-> name, used |-> 0, effective |-> 0])
           acc2 == [i \in 1..Len(acc1) |->
                      IF acc1[i].key = name
                        THEN [acc1[i] EXCEPT
                                !.used = @ + 1,
                                !.effective = @ + IF treatment.completed THEN 1 ELSE 0]
                        ELSE acc1[i]]
       IN  PesticideStats(Tail(ts), acc2)

RECURSIVE Ascending(_)
Ascending(S) ==
  IF S = {} THEN <<>>
  ELSE LET least == CHOOSE e \in S : \A o \in S : ToNumber(e.key) <= ToNumber(o.key)
       IN  <<least>> \o Ascending(S \ {least})

IsIndexEntry(e) == IsArrayIndex(e.key)
IsStringEntry(e) == ~IsArrayIndex(e.key)

\* Object.entries(obj): array-index keys ascending, then the other keys in
\* the order of creation.
ObjectEntries(acc) ==
  Ascending({acc[i] : i \in {j \in 1..Len(acc) : IsIndexEntry(acc[j])}})
  \o SelectSeq(acc, IsStringEntry)

UsageRow(e) ==
  [pesticide |-> e.key,
   used |-> e.used,
   effectiveness |-> IF e.used > 0 THEN Round(e.effective * 100, e.used) ELSE 0]

\* lines 150-170
generatePesticideUsage(ts) ==
  LET rows == Map(ObjectEntries(PesticideStats(ts, <<>>)), UsageRow)
  IN  SubSeq(rows, 1, Min(TOP_GROUPS, Len(rows)))

TREND_DAYS == 30

\* The times told apart within one calendar day: the earlier and the later
\* half of it.
Slots == {0, 1}

\* new Date(x): the instant of a day and a time within it
Instant(day, slot) == day * Cardinality(Slots) + slot
ParseDate(sd) == Instant(sd.day, sd.slot)

\* lines 125-146, before the filter: one point for each of the last 30 days,
\* the oldest first.  `now` is the time of day of the render: every date of
\* the series is new Date() moved back by whole days.
CropHealthSeries_CountsLater(ts, avg, now) ==
  [i \in 1..TREND_DAYS |->
     LET index == i - 1
         date == Instant(index, now)
         IsDone(t) == ParseDate(t.scheduled_date) >= date /\ t.completed
         healthScore == Min(100, Max(20, 100 - avg) + Min(30, Count(ts, IsDone) * 5))
     IN  [day |-> index, health |-> healthScore,
          disease |-> Max(0, 100 - healthScore)]]

CropHealthSeries(ts, avg, now) ==
  [i \in 1..TREND_DAYS |->
     LET index == i - 1
         date == Instant(index, now)
         IsDone(t) == ParseDate(t.scheduled_date) <= date /\ t.completed
         completedTreatments == Count(ts, IsDone)
         baseHealth == Max(20, 100 - avg)
         improvement == Min(30, completedTreatments * 5)
         healthScore == Min(100, baseHealth + improvement)
     IN  [day |-> index, health |-> healthScore,
          disease |-> Max(0, 100 - healthScore)]]

IsThirdDay(point) == point.day % 3 = 0

\* lines 124-147
generateCropHealthTrend(ts, avg, now) ==
  SelectSeq(CropHealthSeries(ts, avg, now), IsThirdDay)

fetchLocals == <<landsData, plantsData, treatmentsData>>
dashState == <<stats, lands, treatments, diagnoses>>
charts == <<cropHealthData, pesticideUsageData, cropHealthTrendData>>

DashDid(op, failed) == [op |-> op, failed |-> failed]

\* The useEffect on [user] calls fetchDashboardData: on mount, and again each
\* time the Session Manager stores a farmer record.  Effects run after the
\* render, so a render that the setters of a fetch have scheduled comes first.
FetchStart ==
  /\ user # None
  /\ fetchPc = "idle"
  /\ dashLast.op # "commit"
  /\ fetchPc' = "lands"
  /\ dashLast' = DashDid("start", FALSE)
  /\ UNCHANGED <<dashState, fetchLocals, charts>>
  /\ UNCHANGED sessionVars

\* The lands query answers.
LandsAnswer(r) ==
  /\ fetchPc = "lands"
  /\ landsData' = r
  /\ fetchPc' = "plants"
  /\ dashLast' = DashDid("lands", r.isNull)
  /\ UNCHANGED <<dashState, plantsData, treatmentsData, charts>>
  /\ UNCHANGED sessionVars

\* The plants query answers.
PlantsAnswer(r) ==
  /\ fetchPc = "plants"
  /\ plantsData' = r
  /\ fetchPc' = "treatments"
  /\ dashLast' = DashDid("plants", dashLast.failed \/ r.isNull)
  /\ UNCHANGED <<dashState, landsData, treatmentsData, charts>>
  /\ UNCHANGED sessionVars

\* The treatments query answers.
TreatmentsAnswer(r) ==
  /\ fetchPc = "treatments"
  /\ treatmentsData' = r
  /\ fetchPc' = "diagnoses"
  /\ dashLast' = DashDid("treatments", dashLast.failed \/ r.isNull)
  /\ UNCHANGED <<dashState, landsData, plantsData, charts>>
  /\ UNCHANGED sessionVars

\* The component renders with the state it holds.
RenderCharts(now) ==
  /\ cropHealthData' = calculateCropHealth(treatments')
  /\ pesticideUsageData' = generatePesticideUsage(treatments')
  /\ cropHealthTrendData' =
       generateCropHealthTrend(treatments', stats'.averageDiseasePercentage, now)

\* The diagnoses query answers and the four setters run (lines 60-82); React
\* batches them and renders once the continuation has returned (Rerender).
\* The error field of no answer is read.
DiagnosesAnswer(diagnosesData) ==
  /\ fetchPc = "diagnoses"
  /\ lands' = OrEmpty(landsData)
  /\ treatments' = OrEmpty(treatmentsData)
  /\ diagnoses' = OrEmpty(diagnosesData)
  /\ stats' = ComputeStats(landsData, plantsData, treatmentsData)
  /\ UNCHANGED charts
  /\ fetchPc' = "idle"
  /\ landsData' = NullData
  /\ plantsData' = NullData
  /\ treatmentsData' = NullData
  /\ dashLast' = DashDid("commit", dashLast.failed \/ diagnosesData.isNull)
  /\ UNCHANGED sessionVars

\* One of the four awaited queries rejects: the catch logs (lines 83-85).
FetchThrows ==
  /\ fetchPc \in {"lands", "plants", "treatments", "diagnoses"}
  /\ fetchPc' = "idle"
  /\ landsData' = NullData
  /\ plantsData' = NullData
  /\ treatmentsData' = NullData
  /\ dashLast' = DashDid("caught", TRUE)
  /\ UNCHANGED <<dashState, charts>>
  /\ UNCHANGED sessionVars

\* A render of the component, at the time of day `now`: the one the setters
\* of a fetch have scheduled, or a later one.
Rerender(now) ==
  /\ fetchPc = "idle"
  /\ UNCHANGED <<stats, treatments>>
  /\ RenderCharts(now)
  /\ dashLast' = DashDid("render", FALSE)
  /\ UNCHANGED <<lands, diagnoses, fetchPc, fetchLocals>>
  /\ UNCHANGED sessionVars

\* The Dashboard as mounted: lines 11-20 and its first render.
DashMount ==
  /\ stats = [totalLands |-> 0, totalAcres |-> 0, activeTreatments |-> 0,
              completedTreatments |-> 0, averageDiseasePercentage |-> 0]
  /\ lands = <<>>
  /\ treatments = <<>>
  /\ diagnoses = <<>>
  /\ fetchPc = "idle"
  /\ landsData = NullData
  /\ plantsData = NullData
  /\ treatmentsData = NullData
  /\ cropHealthData = calculateCropHealth(<<>>)
  /\ pesticideUsageData = generatePesticideUsage(<<>>)
  /\ cropHealthTrendData = generateCropHealthTrend(<<>>, 0, 0)
  /\ dashLast = DashDid("mount", FALSE)

\* ------------------------------------------------------------------ spec

Init ==
  /\ user = None
  /\ loading = TRUE
  /\ sessionCheckAttempts = 0
  /\ svc \in Farmers \cup {None}
  /\ storage \in {S \in SUBSET StorageKeys : ("sb-auth-token" \in S) <=> (svc # None)}
  /\ navigated = FALSE
  /\ checkPc = "getSession"
  /\ checkSession = None
  /\ lookupTimer = 0
  /\ retryTimer = Off
  /\ checkElapsed = 0
  /\ checkTimedOut = FALSE
  /\ handlers = [f \in Farmers |-> 0]
  /\ guardTimer = 0
  /\ hintPending = TRUE
  /\ showTimeout = FALSE
  /\ sinceMount = 0
  /\ soPc = "idle"
  /\ siPc = "idle"
  /\ suPc = "idle"
  /\ signedOut = FALSE
  /\ last = [op |-> "mount", clear |-> FALSE, again |-> FALSE, nav |-> FALSE,
             result |-> "-"]
  /\ mounted = TRUE
  /\ DashMount

Next ==
  \/ GetSessionReturns
  \/ GetSessionThrows
  \/ FarmerFound
  \/ FarmerMissing
  \/ FarmerThrows
  \/ LookupTimeout
  \/ RetryFire
  \/ \E e \in Events : AuthChange(e)
  \/ \E f \in Farmers : HandlerFound(f)
  \/ \E f \in Farmers, why \in HandlerFailures : HandlerFails(f, why)
  \/ \E f \in Farmers : SignInCall(f)
  \/ \E ok \in BOOLEAN : SignInSettles(ok)
  \/ SignOutCall
  \/ \E o \in SignOutOutcomes : SignOutSettles(o)
  \/ GuardHint
  \/ GuardForce
  \/ EscapeClick
  \/ Tick

Spec == Init /\ [][Next]_vars

\* The Session Manager with the two calls of AuthPage, signIn and signUp, and
\* without signOut.
NextAuthPage ==
  \/ GetSessionReturns
  \/ GetSessionThrows
  \/ FarmerFound
  \/ FarmerMissing
  \/ FarmerThrows
  \/ LookupTimeout
  \/ RetryFire
  \/ \E e \in Events : AuthChange(e)
  \/ \E f \in Farmers : HandlerFound(f)
  \/ \E f \in Farmers, why \in HandlerFailures : HandlerFails(f, why)
  \/ \E f \in Farmers : SignInCall(f)
  \/ \E ok \in BOOLEAN : SignInSettles(ok)
  \/ SignUpCall
  \/ \E ok \in BOOLEAN, s \in Farmers \cup {None} : SignUpAuthSettles(ok, s)
  \/ \E ok \in BOOLEAN : SignUpInsertSettles(ok)
  \/ GuardHint
  \/ GuardForce
  \/ EscapeClick
  \/ Tick

AuthPageSpec == Init /\ [][NextAuthPage]_vars

\* Time passes and a timer that is due fires: the event loop runs every timer
\* callback that is armed and not cancelled.  Nothing is assumed of the
\* external service, nor of the user.
FairSpec ==
  /\ Spec
  /\ WF_vars(Tick)
  /\ WF_vars(LookupTimeout)
  /\ WF_vars(RetryFire)
  /\ WF_vars(GuardHint)
  /\ WF_vars(GuardForce)

\* The Session Manager from mount to unmount and after it.
NextUnmount ==
  \/ mounted /\ GetSessionReturns
  \/ mounted /\ GetSessionThrows
  \/ mounted /\ FarmerFound
  \/ mounted /\ FarmerMissing
  \/ mounted /\ FarmerThrows
  \/ mounted /\ LookupTimeout
  \/ mounted /\ \E e \in Events : AuthChange(e)
  \/ mounted /\ \E f \in Farmers : HandlerFound(f)
  \/ mounted /\ \E f \in Farmers, why \in HandlerFailures : HandlerFails(f, why)
  \/ mounted /\ GuardHint
  \/ mounted /\ GuardForce
  \/ mounted /\ EscapeClick
  \/ Unmount
  \/ \E o \in {"answers", "throws"} : GetSessionSettlesUnmounted(o)
  \/ \E o \in {"found", "missing", "throws"} : FarmerSettlesUnmounted(o)
  \/ LookupTimeoutUnmounted
  \/ \E f \in Farmers, found \in BOOLEAN : HandlerSettlesUnmounted(f, found)
  \/ RetryFire
  \/ Tick

UnmountSpec == Init /\ [][NextUnmount]_vars

\* The session once checkUser has found farmer f1 (Init, GetSessionReturns,
\* FarmerFound): the state in which AppRoutes renders the Dashboard.
SignedIn ==
  /\ user = "f1"
  /\ loading = FALSE
  /\ sessionCheckAttempts = 0
  /\ svc = "f1"
  /\ storage = {"sb-auth-token"}
  /\ navigated = FALSE
  /\ checkPc = "done"
  /\ checkSession = None
  /\ lookupTimer = Off
  /\ retryTimer = Off
  /\ checkElapsed = 0
  /\ checkTimedOut = FALSE
  /\ handlers = [f \in Farmers |-> 0]
  /\ guardTimer = Off
  /\ hintPending = FALSE
  /\ showTimeout = FALSE
  /\ sinceMount = 0
  /\ soPc = "idle"
  /\ siPc = "idle"
  /\ suPc = "idle"
  /\ signedOut = FALSE
  /\ last = [op |-> "farmerFound", clear |-> FALSE, again |-> FALSE,
             nav |-> FALSE, result |-> "-"]
  /\ mounted = TRUE

\* The Dashboard of a signed-in farmer, fetching again and again.
DashInit == SignedIn /\ DashMount

NextDash ==
  \/ FetchStart
  \/ \E r \in Answers(LandLists) : LandsAnswer(r)
  \/ \E r \in Answers(PlantLists) : PlantsAnswer(r)
  \/ \E r \in Answers(TreatmentLists(DashTreatments)) : TreatmentsAnswer(r)
  \/ \E r \in Answers(DiagnoseLists) : DiagnosesAnswer(r)
  \/ \E now \in Slots : Rerender(now)
  \/ FetchThrows

DashSpec == DashInit /\ [][NextDash]_vars

\* The charts of the Dashboard, rendered from a treatments state that a fetch
\* over the whole pool has stored.
ChartInit ==
  /\ SignedIn
  /\ treatments \in TreatmentLists(Len(Pool))
  /\ \E pd \in {Rows(<<>>), Rows(<<40, 45>>), Rows(<<90, 100>>)} :
       stats = ComputeStats(Rows(<<>>), pd, Rows(treatments))
  /\ lands = <<>>
  /\ diagnoses = <<>>
  /\ fetchPc = "idle"
  /\ landsData = NullData
  /\ plantsData = NullData
  /\ treatmentsData = NullData
  /\ cropHealthData = calculateCropHealth(<<>>)
  /\ pesticideUsageData = generatePesticideUsage(<<>>)
  /\ cropHealthTrendData = generateCropHealthTrend(<<>>, 0, 0)
  /\ dashLast = DashDid("commit", FALSE)

NextChart == \E now \in Slots : Rerender(now)

ChartSpec == ChartInit /\ [][NextChart]_vars

\* ---------------------------------------------------------------- claims

Cleared == user = None /\ ~loading /\ storage = {}

\* C1: when a signOut call completes, whatever the external sign-out did,
\* user is none, loading is false, storage is empty, and the call resolved.
C1_SignOutAlwaysClears ==
  last.op = "signOut" => Cleared /\ last.clear /\ last.result = "resolved"

\* A signOut completed although the external sign-out failed (the service
\* still holds the session).
C1_Witness ==
  last.op = "signOut" /\ svc # None /\ Cleared /\ last.result = "resolved"

\* C2: after a completed signOut, and until a signIn is issued, user is none.
C2_NoUserAfterSignOut ==
  signedOut => user = None

\* C3: every step that calls clearSession ends, in that one step, with user
\* none, loading false and storage empty; a call that directly follows
\* another call leaves the three as they were.
C3_ClearSessionIdempotent ==
  [][/\ last'.clear => user' = None /\ ~loading' /\ storage' = {}
     /\ last'.again => <<user', loading', storage'>> = <<user, loading, storage>>]_vars

\* clearSession was called in two consecutive steps.
C3_Witness ==
  last.again /\ Cleared

\* C4: the failure that brings the count of consecutive failed session checks
\* to MAX_SESSION_CHECK_ATTEMPTS + 1 force-clears the session and navigates.
C4_ForcedClearAfterMaxFailures ==
  (/\ last.op \in {"getSessionThrows", "farmerMissing", "farmerThrows"}
   /\ sessionCheckAttempts = MAX_SESSION_CHECK_ATTEMPTS + 1)
    => last.clear /\ last.nav /\ Cleared /\ navigated

\* C5: loading is not true more than 12 time units after LoadingSpinner
\* mounted (the forced reset is due at 12 and fires before time moves on).
C5_GuardResetsAtTwelve ==
  loading => sinceMount <= FORCE_DELAY

\* C6: loading eventually becomes false.
C6_LoadingEventuallyFalse ==
  <>(~loading)

\* C7: at no path does AppRoutes render a protected page while loading is
\* true or user is none.
C7_RouteGuard ==
  \A p \in Paths :
    AppRoutes(p) \in ProtectedPaths => ~loading /\ user # None

\* A protected page is rendered for a resolved user.
C7_Witness ==
  /\ ~loading /\ user # None
  /\ \A p \in ProtectedPaths : AppRoutes(p) = p

\* C8: a session check that is still running more than 10 time units after
\* it started has had its timeout fire (forced clear and navigation).
C8_CheckBoundedByTimeout ==
  (checkPc \in {"getSession", "fetchFarmer"} /\ checkElapsed > LOOKUP_TIMEOUT)
    => checkTimedOut

\* C9: retryCount never exceeds MAX_SESSION_CHECK_ATTEMPTS + 1.
C9_RetryCountBounded ==
  sessionCheckAttempts <= MAX_SESSION_CHECK_ATTEMPTS + 1

\* C10: a missing profile record force-clears the session and navigates, with
\* no retry scheduled, in checkUser and in the auth-change handler alike.
C10_ProfileMissingFatal ==
  last.op \in {"farmerMissing", "handlerMissing"}
    => last.clear /\ last.nav /\ Cleared /\ checkPc # "retryWait"
\* C11: no step of signIn or signUp (the call, an answer of the service, the
\* answer of the insert) changes user, loading or retryCount, whether the
\* call ends resolved or rejected.
C11_SignInSignUpWriteNoSession ==
  [][last'.op \in {"signInCall", "signIn", "signUpCall", "signUpAuth",
                   "signUpInsert"}
       => UNCHANGED <<user, loading, sessionCheckAttempts>>]_vars

\* A signIn has just resolved: the service holds the session, user is still
\* none.
C11_Witness ==
  last.op = "signIn" /\ last.result = "resolved" /\ svc # None /\ user = None

\* C12: once loading is false neither LoadingSpinner timer is armed, and no
\* later step is the hint or the forced reset of LoadingSpinner.
C12_GuardTimersCancelled ==
  /\ [](~loading => guardTimer = Off /\ ~hintPending /\ ~showTimeout)
  /\ [][~loading => last'.op \notin {"hint", "guardForce"}]_vars

\* loading became false without any forced reset, and the first session
\* check, started at mount, has since been running for more than 12 units.
C12_Witness ==
  /\ ~loading /\ ~navigated /\ guardTimer = Off
  /\ checkPc = "fetchFarmer" /\ sessionCheckAttempts = 0
  /\ checkElapsed > FORCE_DELAY

\* C13: while loading is true more than 8 units after LoadingSpinner mounted,
\* the hint is visible.
C13_HintAtEight ==
  (loading /\ sinceMount > HINT_DELAY) => showTimeout

\* C14: an auth-change notification that is SIGNED_OUT or carries no session
\* sets user none and loading false; a handler whose profile query finds the
\* record sets user to that farmer and loading false; a handler whose query
\* fails, finds nothing or throws force-clears and navigates.
C14_AuthChangeNotifications ==
  [][/\ (last'.op = "authChange" /\ handlers' = handlers)
          => user' = None /\ ~loading'
     /\ last'.op = "handlerFound"
          => \E f \in Farmers : /\ handlers'[f] = handlers[f] - 1
                                /\ user' = f /\ ~loading'
     /\ last'.op \in HandlerFailures
          => /\ user' = None /\ ~loading' /\ storage' = {}
             /\ navigated' /\ last'.clear /\ last'.nav]_vars

\* A handler's profile query found no record: forced clear and navigation.
C14_Witness ==
  last.op = "handlerMissing" /\ Cleared /\ navigated


\* C15: when one of the four queries of a fetch fails, by rejecting or by
\* answering with an error result, the fetch leaves stats, lands, treatments
\* and diagnoses as they were before it started.
C15_FailedFetchKeepsState ==
  [][(dashLast'.op \in {"commit", "caught"} /\ dashLast'.failed)
       => UNCHANGED dashState]_vars

\* C16: active + completed is the number of treatment records a completed
\* fetch was answered with, and it is the length of the treatments list in
\* state at every point.
C16_TreatmentPartition ==
  /\ [](stats.activeTreatments + stats.completedTreatments = Len(treatments))
  /\ [][dashLast'.op = "commit"
          => stats'.activeTreatments + stats'.completedTreatments
               = Len(OrEmpty(treatmentsData))]_vars

C16_Witness ==
  /\ dashLast.op = "commit"
  /\ stats.activeTreatments = 1
  /\ stats.completedTreatments = 1
  /\ Len(treatments) = 2

SliceValue(d, name) ==
  IF \E i \in 1..Len(d) : d[i].name = name
    THEN (CHOOSE e \in {d[i] : i \in 1..Len(d)} : e.name = name).value
    ELSE 0
SliceValues(d) == Map(d, LAMBDA e : e.value)

\* C18: the donut of no treatments is the one slice {No Data, 100}; otherwise
\* Treated is the percentage of completed treatments to the nearest integer,
\* Needs Treatment is the rest, a slice of 0 is left out, every value is in
\* 1..100 and the values sum to 100; 2 completed of 3 give 67 and 33.
C18_CropHealthDonut ==
  dashLast.op = "render" =>
    LET total == Len(treatments)
        completed == Count(treatments, IsCompleted)
        treated == SliceValue(cropHealthData, "Treated")
        needs == SliceValue(cropHealthData, "Needs Treatment")
    IN  IF total = 0
          THEN cropHealthData = <<Slice("No Data", 100)>>
          ELSE /\ 2 * (total * treated - 100 * completed) <= total
               /\ 2 * (100 * completed - total * treated) <= total
               /\ needs = 100 - treated
               /\ cropHealthData =
                    (IF treated > 0 THEN <<Slice("Treated", treated)>> ELSE <<>>)
                    \o (IF needs > 0 THEN <<Slice("Needs Treatment", needs)>>
                        ELSE <<>>)
               /\ \A i \in 1..Len(cropHealthData) :
                    cropHealthData[i].value \in 1..100
               /\ Sum(SliceValues(cropHealthData)) = 100
               /\ (total = 3 /\ completed = 2)
                    => cropHealthData = <<Slice("Treated", 67),
                                          Slice("Needs Treatment", 33)>>

C18_Witness ==
  /\ dashLast.op = "render"
  /\ Len(treatments) = 3
  /\ Count(treatments, IsCompleted) = 2
  /\ cropHealthData = <<Slice("Treated", 67), Slice("Needs Treatment", 33)>>

\* The first words of the names in ts, each once, in the order in which they
\* first appear.
RECURSIVE FirstAppearance(_, _)
FirstAppearance(ts, seen) ==
  IF ts = <<>> THEN seen
  ELSE LET w == FirstWord(Head(ts).pesticide_name)
       IN  FirstAppearance(Tail(ts),
             IF \E i \in 1..Len(seen) : seen[i] = w THEN seen ELSE Append(seen, w))

\* C19: the rows of the pesticide chart are the first 6 groups in the order in
\* which their first words first appear among the treatments; a row counts the
\* treatments of its group, and its effectiveness is the percentage of them
\* that are completed, to the nearest integer, within 0..100.
C19_PesticideGrouping ==
  dashLast.op = "render" =>
    LET words == FirstAppearance(treatments, <<>>)
        n == Min(TOP_GROUPS, Len(words))
    IN  /\ Len(pesticideUsageData) = n
        /\ \A i \in 1..n :
             LET row == pesticideUsageData[i]
                 InGroup(t) == FirstWord(t.pesticide_name) = words[i]
                 group == SelectSeq(treatments, InGroup)
                 done == Count(group, IsCompleted)
             IN  /\ row.pesticide = words[i]
                 /\ row.used = Len(group)
                 /\ row.effectiveness \in 0..100
                 /\ 2 * (row.used * row.effectiveness - 100 * done) <= row.used
                 /\ 2 * (100 * done - row.used * row.effectiveness) <= row.used

\* C20: while loading is true the LoadingSpinner timers count from the
\* moment it mounted.
C20_GuardTimersKeepCounting ==
  loading => guardTimer = sinceMount

\* C21: a forced clear (the 10 s timeout, the Loading Guard reset, signOut)
\* leaves a session check that is in flight in flight, with the session it is
\* fetching a profile for; the check can then resolve and set user again
\* (C21_Witness: the check whose 10 s timer fired has set user to a profile).
C21_ForcedClearKeepsCheckInFlight ==
  [][(last'.op \in {"lookupTimeout", "guardForce", "signOut"}
      /\ checkPc \in {"getSession", "fetchFarmer"})
       => /\ user' = None
          /\ checkPc' = checkPc
          /\ checkSession' = checkSession]_vars

C21_Witness ==
  /\ last.op = "farmerFound"
  /\ checkTimedOut
  /\ navigated
  /\ user # None

\* C22: a session check that finds a session and its profile record leaves
\* user = that profile, loading = false and the retry count 0; one that finds
\* no session leaves user = none and loading = false, the retry count,
\* storage and navigation as they were, and calls no clearSession.
C22_CheckResolution ==
  [][/\ (last'.op = "farmerFound")
          => /\ checkSession # None
             /\ user' = checkSession
             /\ ~loading'
             /\ sessionCheckAttempts' = 0
     /\ (last'.op = "getSession" /\ svc = None)
          => /\ user' = None
             /\ ~loading'
             /\ ~last'.clear
             /\ UNCHANGED <<sessionCheckAttempts, storage, navigated>>]_vars

C22_Witness ==
  /\ last.op = "farmerFound"
  /\ ~checkTimedOut
  /\ ~navigated
  /\ user # None
  /\ ~loading
  /\ sessionCheckAttempts = 0

\* C23: once the Session Manager is unmounted, neither a 10 s timer nor a
\* 2 s retry timer of its fires.
C23_NoTimerAfterUnmount ==
  [][~mounted => last'.op \notin {"lookupTimeout", "retry"}]_vars

\* The trend as claimed for the kept day `day`: the treatments counted are
\* those completed and scheduled on that calendar day or an earlier one.
ClaimedHealth(day) ==
  LET OnOrBefore(t) == t.scheduled_date.day <= day /\ t.completed
  IN  Min(100, Max(20, 100 - stats.averageDiseasePercentage)
               + Min(30, 5 * Count(treatments, OnOrBefore)))

\* C24: the trend has exactly 10 points, the days 0, 3, .., 27 of the 30,
\* oldest first; the health of a day is min(100, max(20, 100 - average
\* disease) + min(30, 5 x treatments completed and scheduled on or before
\* that day)), within 20..100, and the disease level is 100 - health.
C24_HealthTrend ==
  dashLast.op = "render" =>
    /\ Len(cropHealthTrendData) = 10
    /\ \A k \in 1..Len(cropHealthTrendData) :
         LET point == cropHealthTrendData[k]
         IN  /\ point.day = 3 * (k - 1)
             /\ point.health = ClaimedHealth(point.day)
             /\ point.health \in 20..100
             /\ point.disease = 100 - point.health

\* C25: a non-empty user implies loading = false; a step that sets user to a
\* profile leaves loading false; no step sets loading to true.
C25_UserImpliesNotLoading ==
  /\ [](user # None => ~loading)
  /\ [][(user' # user /\ user' # None) => ~loading']_vars
  /\ [][loading' => loading]_vars

C25_Witness ==
  /\ last.op = "handlerFound"
  /\ user # None
  /\ ~loading
  /\ checkPc \in {"getSession", "fetchFarmer"}

\* C26: loading is true at mount, and once it is false it stays false, across
\* signIn, signOut, retried session checks and auth-change notifications.
C26_LoadingMonotone ==
  /\ loading = TRUE
  /\ [][~loading => ~loading']_vars

C26_Witness ==
  /\ ~loading
  /\ last.op = "retry"
  /\ checkPc = "getSession"

\* C27: a step that assigns window.location.href has called clearSession and
\* ends with user = none, loading = false and storage empty; navigation
\* happens in no other step.
C27_NavigationAfterClear ==
  [][(last'.nav \/ (navigated' /\ ~navigated))
       => /\ last'.nav
          /\ last'.clear
          /\ navigated'
          /\ user' = None
          /\ ~loading'
          /\ storage' = {}]_vars

C27_Witness ==
  /\ last.op = "escape"
  /\ last.nav
  /\ navigated
  /\ Cleared

SignCalls == {"signInCall", "signIn", "signUpCall", "signUpAuth", "signUpInsert"}
SessionLess ==
  \/ last'.op = "getSession" /\ svc = None
  \/ last'.op = "authChange" /\ handlers' = handlers

Monotone(series) ==
  \A k \in 2..Len(series) :
    /\ series[k - 1].health <= series[k].health
    /\ series[k - 1].disease >= series[k].disease

\* C29: for the snapshot in state, the health of a later day of the trend is
\* at least the health of every earlier day and its disease level at most the
\* earlier one's: in the points rendered, and in all 30 days at whatever time
\* of day the Dashboard renders.
C29_TrendMonotone ==
  /\ Monotone(cropHealthTrendData)
  /\ \A now \in Slots :
       Monotone(CropHealthSeries(treatments, stats.averageDiseasePercentage, now))

C29_Witness ==
  /\ dashLast.op = "render"
  /\ Len(cropHealthTrendData) = 10
  /\ cropHealthTrendData[1].health = 57
  /\ cropHealthTrendData[4].health = 62
  /\ cropHealthTrendData[10].health = 72

=============================================================================
